---- MODULE Spec2Model ----
(***************************************************************************)
(* Model of scripts/orders_to_suppliers.py: the config-driven pipeline     *)
(* transform() (load, filter, rename, computed fields, output shaping,     *)
(* validation, write) and its helpers.                                     *)
(*                                                                         *)
(* Text is a sequence of characters, each character a one-element token    *)
(* ("a", "_", " ").  Two tokens stand for non-ASCII characters: "I_DOT" is *)
(* U+0130 (capital I with dot above) and "DOT_ABOVE" is U+0307 (combining  *)
(* dot above), the pair Python's str.lower() turns U+0130 into.            *)
(* A missing cell (pandas NaN / None) is the value NaN below.              *)
(***************************************************************************)
EXTENDS Integers, Sequences, FiniteSets, TLC

VARIABLES pc, cfg, src, df, written, err, trace, ci, nname, nout

vars == <<pc, cfg, src, df, written, err, trace, ci, nname, nout>>

(***************************************************************************)
(* Bounds of the model.                                                    *)
(***************************************************************************)
MaxRows == 2
MaxThreshold == 3
MaxNameLen == 3

(***************************************************************************)
(* Characters and the string methods the script uses.                      *)
(***************************************************************************)
UpperLetters == <<"A","B","C","D","E","F","G","H","I","J","K","L","M",
                  "N","O","P","Q","R","S","T","U","V","W","X","Y","Z">>
LowerLetters == <<"a","b","c","d","e","f","g","h","i","j","k","l","m",
                  "n","o","p","q","r","s","t","u","v","w","x","y","z">>
Digits == <<"0","1","2","3","4","5","6","7","8","9">>

Range(s) == {s[i] : i \in 1..Len(s)}

IndexOf(s, x) == CHOOSE i \in 1..Len(s) : s[i] = x

\* str.lower() of one character; U+0130 lowers to the two characters
\* "i" + U+0307.
LowerChar(c) ==
    IF c \in Range(UpperLetters) THEN <<LowerLetters[IndexOf(UpperLetters, c)]>>
    ELSE IF c = "I_DOT" THEN <<"i", "DOT_ABOVE">>
    ELSE <<c>>

RECURSIVE Lower(_)
Lower(s) == IF s = <<>> THEN <<>> ELSE LowerChar(Head(s)) \o Lower(Tail(s))

\* \w of Python's re on str: alphanumeric (str.isalnum) or underscore.
\* U+0130 is a letter; U+0307 is a combining mark, so it is \W.
IsWord(c) ==
    \/ c \in Range(UpperLetters)
    \/ c \in Range(LowerLetters)
    \/ c \in Range(Digits)
    \/ c = "_"
    \/ c = "I_DOT"

Whitespace == {" "}

\* \s of Python's re, over the characters of the model.
IsSpace(c) == c \in Whitespace

\* re.sub(r"\W+", "_", s): every maximal run of non-word characters becomes
\* one underscore.
RECURSIVE SubNonWord(_)
SubNonWord(s) ==
    IF s = <<>> THEN <<>>
    ELSE IF IsWord(Head(s)) THEN <<Head(s)>> \o SubNonWord(Tail(s))
    ELSE IF Len(s) > 1 /\ ~IsWord(s[2]) THEN SubNonWord(Tail(s))
    ELSE <<"_">> \o SubNonWord(Tail(s))

\* str.lstrip(chars) / str.rstrip(chars): drop leading / trailing characters
\* that belong to the set chars.
RECURSIVE LStrip(_, _)
LStrip(s, chars) ==
    IF s # <<>> /\ Head(s) \in chars THEN LStrip(Tail(s), chars) ELSE s

RECURSIVE RStrip(_, _)
RStrip(s, chars) ==
    IF s # <<>> /\ s[Len(s)] \in chars
    THEN RStrip(SubSeq(s, 1, Len(s) - 1), chars) ELSE s

\* str.strip(chars)
StripChars(s, chars) == RStrip(LStrip(s, chars), chars)

\* str.strip()
Strip(s) == StripChars(s, Whitespace)

normalize_column_name(name) == Lower(StripChars(SubNonWord(name), {"_"}))

(***************************************************************************)
(* Names the script spells out.                                            *)
(***************************************************************************)
\* "financial_status": the literal at lines 104-106
FINANCIAL_STATUS == <<"f","i","n","a","n","c","i","a","l","_","s","t","a","t","u","s">>
\* "fulfillment_status": the literal at lines 109-111
FULFILLMENT_STATUS == <<"f","u","l","f","i","l","l","m","e","n","t","_","s","t","a","t","u","s">>
\* "lineitem_quantity": the literal at lines 114-115
LINEITEM_QUANTITY == <<"l","i","n","e","i","t","e","m","_","q","u","a","n","t","i","t","y">>
\* "qty": the literal at lines 116-117
QTY == <<"q","t","y">>
\* "to_date": env key, line 70
TO_DATE == <<"t","o","_","d","a","t","e">>
\* "po_date_plus": env key, line 71
PO_DATE_PLUS == <<"p","o","_","d","a","t","e","_","p","l","u","s">>
\* "concat": env key, line 72
CONCAT == <<"c","o","n","c","a","t">>
\* "pd": env key, line 73
PD == <<"p","d">>

(***************************************************************************)
(* Cell values.  read_csv(dtype=str) yields text or NaN for a blank cell.  *)
(* An integer cell (after .astype(int)) is kept as its decimal text, which *)
(* is what str(), astype(str), to_numeric and to_csv all see of it.        *)
(***************************************************************************)
NaN == <<"<NaN>">>

\* pd.isna(v)
IsNa(v) == v = NaN

\* Series.fillna("").astype(str) / Series.astype(str) of one cell.
FillNaEmpty(v) == IF IsNa(v) THEN <<>> ELSE v

AsStr(v) == IF IsNa(v) THEN <<"n","a","n">> ELSE v

(***************************************************************************)
(* Numbers.  A number is [nan, neg, ip, fz]: not-a-number, or sign,        *)
(* integer part of the magnitude, and whether the fraction is zero.        *)
(***************************************************************************)
NumNaN == [nan |-> TRUE, neg |-> FALSE, ip |-> 0, fz |-> TRUE]

Num(neg, ip, fz) == [nan |-> FALSE, neg |-> neg, ip |-> ip, fz |-> fz]

AllDigits(s) == \A i \in 1..Len(s) : s[i] \in Range(Digits)

RECURSIVE DigitsVal(_)
DigitsVal(s) ==
    IF s = <<>> THEN 0
    ELSE 10 * DigitsVal(SubSeq(s, 1, Len(s) - 1)) + (IndexOf(Digits, s[Len(s)]) - 1)

\* The unsigned part: digits, optionally "." and more digits.
ParseUnsigned(s, neg) ==
    IF \E i \in 1..Len(s) : s[i] = "."
    THEN LET d == CHOOSE i \in 1..Len(s) : s[i] = "."
             a == SubSeq(s, 1, d - 1)
             b == SubSeq(s, d + 1, Len(s))
         IN  IF (a # <<>> \/ b # <<>>) /\ AllDigits(a) /\ AllDigits(b)
             THEN Num(neg, DigitsVal(a), DigitsVal(b) = 0)
             ELSE NumNaN
    ELSE IF s # <<>> /\ AllDigits(s) THEN Num(neg, DigitsVal(s), TRUE)
    ELSE NumNaN

\* pd.to_numeric(v, errors="coerce") of one cell, for signed decimal
\* literals; every other text, the empty text and a missing cell give NaN.
ToNumeric(v) ==
    IF IsNa(v) \/ v = <<>> THEN NumNaN
    ELSE IF Head(v) = "-" THEN ParseUnsigned(Tail(v), TRUE)
    ELSE IF Head(v) = "+" THEN ParseUnsigned(Tail(v), FALSE)
    ELSE ParseUnsigned(v, FALSE)

\* Series.fillna(0) of one number.
FillNaZero(n) == IF n.nan THEN Num(FALSE, 0, TRUE) ELSE n

\* Series.astype(int) of one finite number: truncation toward zero.
AsInt(n) == IF n.neg THEN 0 - n.ip ELSE n.ip

\* n <= 0 as numpy compares it: False for NaN.
LeqZero(n) == ~n.nan /\ (n.neg \/ (n.ip = 0 /\ n.fz))

RECURSIVE NatToStr(_)
NatToStr(k) ==
    IF k < 10 THEN <<Digits[k + 1]>>
    ELSE NatToStr(k \div 10) \o <<Digits[(k % 10) + 1]>>

\* str(i) of an integer.
IntToStr(i) == IF i < 0 THEN <<"-">> \o NatToStr(0 - i) ELSE NatToStr(i)

(***************************************************************************)
(* Tables.  A DataFrame is [cols, rows, index]: the column labels in       *)
(* order (pandas allows a label to occur twice), one sequence of cells per *)
(* row, aligned with cols, and the row labels (the position of each row in *)
(* the file it was read from).                                             *)
(***************************************************************************)
Frame(cols, rows, index) == [cols |-> cols, rows |-> rows, index |-> index]

NRows(t) == Len(t.rows)

\* c in df.columns
HasCol(t, c) == c \in Range(t.cols)

Positions(t, c) == {j \in 1..Len(t.cols) : t.cols[j] = c}

\* df[c] is a Series only when the label occurs once; with a repeated label
\* it is a DataFrame.
IsSeries(t, c) == Cardinality(Positions(t, c)) = 1

Pos(t, c) == CHOOSE j \in 1..Len(t.cols) : t.cols[j] = c

\* df[c].iloc[i] for a label that occurs once.
Cell(t, i, c) == t.rows[i][Pos(t, c)]

RECURSIVE KeepFrom(_, _, _)
KeepFrom(s, K, i) ==
    IF i > Len(s) THEN <<>>
    ELSE (IF i \in K THEN <<s[i]>> ELSE <<>>) \o KeepFrom(s, K, i + 1)

\* df[mask]: the rows at the positions K, in order, with their labels.
SelectRows(t, K) == Frame(t.cols, KeepFrom(t.rows, K, 1), KeepFrom(t.index, K, 1))

\* df[c] = vals: every column labelled c is overwritten in place; a new
\* label is appended as the last column.
SetCol(t, c, vals) ==
    IF HasCol(t, c)
    THEN Frame(t.cols,
               [i \in 1..NRows(t) |->
                   [j \in 1..Len(t.cols) |->
                       IF t.cols[j] = c THEN vals[i] ELSE t.rows[i][j]]],
               t.index)
    ELSE Frame(Append(t.cols, c),
               [i \in 1..NRows(t) |-> Append(t.rows[i], vals[i])],
               t.index)

\* A dict built from key/value pairs in order: a later pair with the same
\* key replaces the earlier value.
DictKeys(pairs) == {pairs[i][1] : i \in 1..Len(pairs)}

LastWith(pairs, k) ==
    CHOOSE i \in 1..Len(pairs) :
        /\ pairs[i][1] = k
        /\ \A j \in (i + 1)..Len(pairs) : pairs[j][1] # k

DictOf(pairs) == [k \in DictKeys(pairs) |-> pairs[LastWith(pairs, k)][2]]

\* df.rename(columns=m): every label that is a key of m is replaced by its
\* value; the columns keep their positions and their cells.
RenameColumns(t, m) ==
    Frame([j \in 1..Len(t.cols) |->
              IF t.cols[j] \in DOMAIN m THEN m[t.cols[j]] ELSE t.cols[j]],
          t.rows, t.index)

\* {normalize_column_name(k): v for k, v in ren.items()
\*      if normalize_column_name(k) in df.columns}
RenameMap(t, ren) ==
    DictOf(SelectSeq(
        [i \in 1..Len(ren) |-> <<normalize_column_name(ren[i][1]), ren[i][2]>>],
        LAMBDA p : HasCol(t, p[1])))

RECURSIVE Flatten(_)
Flatten(ss) == IF ss = <<>> THEN <<>> ELSE Head(ss) \o Flatten(Tail(ss))

RECURSIVE SortedSeq(_)
SortedSeq(S) ==
    IF S = {} THEN <<>>
    ELSE LET m == CHOOSE x \in S : \A y \in S : x <= y
         IN  <<m>> \o SortedSeq(S \ {m})

\* df[order] with a list of labels: for each label in turn, every column
\* carrying it.
SelectColumns(t, order) ==
    LET ps == Flatten([k \in 1..Len(order) |-> SortedSeq(Positions(t, order[k]))])
    IN  Frame([j \in 1..Len(ps) |-> t.cols[ps[j]]],
              [i \in 1..NRows(t) |-> [j \in 1..Len(ps) |-> t.rows[i][ps[j]]]],
              t.index)

(***************************************************************************)
(* Stage results.  err = "" is a normal return; any other value is the     *)
(* exception the stage raised.                                             *)
(***************************************************************************)
Ok(t) == [err |-> "", df |-> t]

Raise(e, t) == [err |-> e, df |-> t]

\* An exception is never caught inside transform: the first one ends the
\* run; otherwise control falls through to the next statement.
AfterStageSwallow(e, next) == next

AfterStage(e, next) == IF e = "" THEN next ELSE "failed"

(***************************************************************************)
(* Filter stage.                                                           *)
(***************************************************************************)
\* {s.lower() for s in inc}
LowerSet(vals) == {Lower(vals[i]) : i \in 1..Len(vals)}

StatusMaskCaseSensitive(t, c, vals) ==
    {i \in 1..NRows(t) : FillNaEmpty(Cell(t, i, c)) \in LowerSet(vals)}

\* df[c].fillna("").astype(str).str.lower().isin({s.lower() for s in vals})
StatusMask(t, c, vals) ==
    {i \in 1..NRows(t) : Lower(FillNaEmpty(Cell(t, i, c))) \in LowerSet(vals)}

FilterInclude(t, inc) ==
    IF inc = <<>> THEN Ok(t)
    ELSE IF ~HasCol(t, FINANCIAL_STATUS) THEN Raise("MissingColumn", t)
    ELSE IF ~IsSeries(t, FINANCIAL_STATUS) THEN Raise("AttributeError", t)
    ELSE Ok(SelectRows(t, StatusMask(t, FINANCIAL_STATUS, inc)))

FilterExclude(t, exc) ==
    IF exc = <<>> THEN Ok(t)
    ELSE IF ~HasCol(t, FULFILLMENT_STATUS) THEN Raise("MissingColumn", t)
    ELSE IF ~IsSeries(t, FULFILLMENT_STATUS) THEN Raise("AttributeError", t)
    ELSE Ok(SelectRows(t, (1..NRows(t)) \ StatusMask(t, FULFILLMENT_STATUS, exc)))

QuantityColumnQtyFirst(t) ==
    IF HasCol(t, QTY) THEN <<QTY>>
    ELSE IF HasCol(t, LINEITEM_QUANTITY) THEN <<LINEITEM_QUANTITY>>
    ELSE <<>>

\* qcol: lineitem_quantity, else qty, else none (<<>>).
QuantityColumn(t) ==
    IF HasCol(t, LINEITEM_QUANTITY) THEN <<LINEITEM_QUANTITY>>
    ELSE IF HasCol(t, QTY) THEN <<QTY>>
    ELSE <<>>

\* pd.to_numeric(v, errors="coerce").fillna(0).astype(int) of one cell.
QuantityOf(v) == AsInt(FillNaZero(ToNumeric(v)))

\* mq is <<>> when min_quantity is not configured, <<n>> otherwise.
FilterMinQuantity(t, mq) ==
    IF mq = <<>> THEN Ok(t)
    ELSE IF QuantityColumn(t) = <<>> THEN Raise("MissingColumn", t)
    ELSE LET qcol == QuantityColumn(t)[1]
         IN  IF ~IsSeries(t, qcol) THEN Raise("TypeError", t)
             ELSE LET q  == [i \in 1..NRows(t) |-> QuantityOf(Cell(t, i, qcol))]
                      t2 == SetCol(t, qcol, [i \in 1..NRows(t) |-> IntToStr(q[i])])
                  IN  Ok(SelectRows(t2, {i \in 1..NRows(t) : q[i] >= mq[1]}))

\* Lines 103-112: the two status filters, in order.
FilterStatus(t, c) ==
    LET r1 == FilterInclude(t, c.inc)
    IN  IF r1.err # "" THEN r1 ELSE FilterExclude(r1.df, c.exc)

FilterStage(t, c) ==
    LET r2 == FilterStatus(t, c)
    IN  IF r2.err # "" THEN r2 ELSE FilterMinQuantity(r2.df, c.mq)

(***************************************************************************)
(* Rename stage and output shaping.                                        *)
(***************************************************************************)
RenameStage(t, c) == RenameColumns(t, RenameMap(t, c.rename))

FinalRename(t, c) == RenameColumns(t, RenameMap(t, c.rename_final))

\* for c in order: if c not in df.columns: df[c] = ""
RECURSIVE EnsureColumns(_, _)
EnsureColumns(t, order) ==
    IF order = <<>> THEN t
    ELSE EnsureColumns(
            IF HasCol(t, Head(order)) THEN t
            ELSE SetCol(t, Head(order), [i \in 1..NRows(t) |-> <<>>]),
            Tail(order))

OrderColumns(t, order) ==
    IF order = <<>> THEN t ELSE SelectColumns(EnsureColumns(t, order), order)

ShapeStage(t, c) == OrderColumns(FinalRename(t, c), c.columns_order)

(***************************************************************************)
(* Computed fields.  An expression is                                      *)
(*   [op |-> "ref", id |-> name]                  the identifier name      *)
(*   [op |-> "call", id |-> f, args |-> <<a, b>>] the call f(a, b) of      *)
(*                                                identifiers              *)
(* Calls of to_date and po_date_plus are not part of the expressions the   *)
(* model evaluates.                                                        *)
(***************************************************************************)
Ref(id) == [op |-> "ref", id |-> id, args |-> <<>>]

Call(f, args) == [op |-> "call", id |-> f, args |-> args]

\* The keys of env.
EnvNames == {TO_DATE, PO_DATE_PLUS, CONCAT, PD}

\* The objects env binds: three functions and the pandas module.
EnvValue(id) ==
    CASE id = TO_DATE      -> <<"<function to_date>">>
      [] id = PO_DATE_PLUS -> <<"<function po_date_plus>">>
      [] id = CONCAT       -> <<"<function concat>">>
      [] id = PD           -> <<"<module pandas>">>

\* row.get(k) for a label that occurs twice is a Series, not a cell.
SeriesValue == <<"<Series>">>

\* The names eval can resolve: local_vars has the frame's columns, then
\* update(env); globals hold only an empty __builtins__.
Resolves(t, id) == id \in EnvNames \/ HasCol(t, id)

\* local_vars[id] for row i; i = 0 is the empty row pandas passes when the
\* frame has no rows, for which row.get(k) is None.
Lookup(t, i, id) ==
    IF id \in EnvNames THEN EnvValue(id)
    ELSE IF i = 0 THEN NaN
    ELSE IF IsSeries(t, id) THEN Cell(t, i, id)
    ELSE SeriesValue

\* re.sub(r"\s+", " ", s)
RECURSIVE CollapseSpace(_)
CollapseSpace(s) ==
    IF s = <<>> THEN <<>>
    ELSE IF ~IsSpace(Head(s)) THEN <<Head(s)>> \o CollapseSpace(Tail(s))
    ELSE IF Len(s) > 1 /\ IsSpace(s[2]) THEN CollapseSpace(Tail(s))
    ELSE <<" ">> \o CollapseSpace(Tail(s))

\* " ".join(parts)
RECURSIVE JoinSpace(_)
JoinSpace(parts) ==
    IF parts = <<>> THEN <<>>
    ELSE IF Len(parts) = 1 THEN parts[1]
    ELSE parts[1] \o <<" ">> \o JoinSpace(Tail(parts))

\* concat(*parts)
concat(parts) ==
    LET vals == [k \in 1..Len(parts) |-> FillNaEmpty(parts[k])]
        kept == SelectSeq(vals, LAMBDA x : x # <<>> /\ x # <<"n","a","n">>)
    IN  Strip(CollapseSpace(JoinSpace(kept)))

\* eval(expr, {"__builtins__": {}}, local_vars) for row i: [err, val].
EvalRow(t, i, e) ==
    IF ~Resolves(t, e.id) THEN [err |-> "NameError", val |-> NaN]
    ELSE IF e.op = "ref" THEN [err |-> "", val |-> Lookup(t, i, e.id)]
    ELSE IF \E k \in 1..Len(e.args) : ~Resolves(t, e.args[k])
         THEN [err |-> "NameError", val |-> NaN]
    ELSE IF e.id \notin {TO_DATE, PO_DATE_PLUS, CONCAT}
         THEN [err |-> "TypeError", val |-> NaN]   \* not callable
    ELSE LET a == [k \in 1..Len(e.args) |-> Lookup(t, i, e.args[k])]
         IN  CASE e.id = CONCAT ->
                 IF \E k \in 1..Len(a) : a[k] = SeriesValue
                 THEN [err |-> "ValueError", val |-> NaN]
                 ELSE [err |-> "", val |-> concat(a)]

\* The first exception over the rows, in row order ("" when none).
RECURSIVE FirstErr(_)
FirstErr(errs) ==
    IF errs = <<>> THEN ""
    ELSE IF Head(errs) # "" THEN Head(errs)
    ELSE FirstErr(Tail(errs))

\* df[col] = df.apply(_eval_row, axis=1): the results this statement can
\* have.  With rows, every row is evaluated in order and the first exception
\* ends the run; a row result that is a Series cannot be stored in one column.
\* With no rows pandas evaluates the function once on an empty row and
\* swallows its exception; what it then assigns depends on the pandas
\* version and the frame's width, so both outcomes are possible.
ComputedOutcomes(t, col, e) ==
    IF NRows(t) > 0
    THEN LET r == [i \in 1..NRows(t) |-> EvalRow(t, i, e)]
             x == FirstErr([i \in 1..NRows(t) |-> r[i].err])
         IN  IF x # "" THEN {Raise(x, t)}
             ELSE IF \E i \in 1..NRows(t) : r[i].val = SeriesValue
             THEN {Raise("ValueError", t)}
             ELSE {Ok(SetCol(t, col, [i \in 1..NRows(t) |-> r[i].val]))}
    ELSE IF EvalRow(t, 0, e).err = ""
         THEN {Ok(SetCol(t, col, <<>>))}
         ELSE {Ok(SetCol(t, col, <<>>)), Raise("ValueError", t)}

ComputedItemReversed(computed, k) == computed[Len(computed) + 1 - k]

\* The k-th pair of computed.items(): a dict iterates in insertion order.
ComputedItem(computed, k) == computed[k]

(***************************************************************************)
(* Validator.                                                              *)
(***************************************************************************)
CheckRequired(t, c) ==
    IF ~HasCol(t, c) THEN "ValidationError: missing values"
    ELSE IF ~IsSeries(t, c) THEN "ValueError"
    ELSE IF \E i \in 1..NRows(t) :
                \/ IsNa(Cell(t, i, c))
                \/ Strip(AsStr(Cell(t, i, c))) = <<>>
         THEN "ValidationError: missing values"
    ELSE ""

CheckPositive(t, c) ==
    IF ~HasCol(t, c) THEN ""
    ELSE IF ~IsSeries(t, c) THEN "TypeError"
    ELSE IF \E i \in 1..NRows(t) : LeqZero(ToNumeric(Cell(t, i, c)))
         THEN "ValidationError: must be > 0"
    ELSE ""

CheckNonempty(t, c) ==
    IF ~HasCol(t, c) THEN ""
    ELSE IF ~IsSeries(t, c) THEN "AttributeError"
    ELSE IF \E i \in 1..NRows(t) : Strip(AsStr(Cell(t, i, c))) = <<>>
         THEN "ValidationError: empty values"
    ELSE ""

\* The three loops in order; the first failing check raises.
ValidateStage(t, c) ==
    FirstErr([k \in 1..Len(c.required) |-> CheckRequired(t, c.required[k])]
             \o [k \in 1..Len(c.positive_int) |-> CheckPositive(t, c.positive_int[k])]
             \o [k \in 1..Len(c.nonempty) |-> CheckNonempty(t, c.nonempty[k])])

(***************************************************************************)
(* Inputs: the orders file and the configuration document.                 *)
(***************************************************************************)
\* The header row of an orders export.
Headers ==
    <<<<"F","i","n","a","n","c","i","a","l"," ","S","t","a","t","u","s">>,
      <<"F","u","l","f","i","l","l","m","e","n","t"," ","S","t","a","t","u","s">>,
      <<"L","i","n","e","i","t","e","m"," ","q","u","a","n","t","i","t","y">>,
      <<"Q","t","y">>,
      <<"S","i","z","e">>>>

\* Order lines an export can hold, one cell per header (NaN: a blank cell).
RowPool ==
    {<<<<"P","a","i","d">>, <<"f","u","l","f","i","l","l","e","d">>, <<"3">>, <<"1">>, <<"M">>>>,
     <<<<"p","e","n","d","i","n","g">>, NaN, <<"2">>, <<"3">>, <<" ">>>>,
     <<NaN, <<"U","n","f","u","l","f","i","l","l","e","d">>, <<"a","b","c">>, <<"-","0",".","5">>, NaN>>,
     <<<<"P","A","I","D">>, <<"F","U","L","F","I","L","L","E","D">>, <<"-","0",".","5">>, <<"a","b","c">>, <<"L">>>>,
     <<<<"p","a","i","d">>, <<"p","a","r","t","i","a","l">>, NaN, <<"0","3">>, <<"B","l","u","e">>>>}

\* An export may carry only some of the columns.
Layouts == {<<1, 2, 3, 4, 5>>, <<4, 5>>, <<5>>}

Project(s, layout) == [k \in 1..Len(layout) |-> s[layout[k]]]

RowSeqs == UNION {[1..n -> RowPool] : n \in 0..MaxRows}

\* What load_frame returns: the raw header and the rows, all text.
Sources ==
    {[cols |-> Project(Headers, l),
      rows |-> [i \in 1..Len(rs) |-> Project(rs[i], l)]] :
        l \in Layouts, rs \in RowSeqs}

\* A configuration with every section absent.
BaseCfg ==
    [null |-> FALSE, inc |-> <<>>, exc |-> <<>>, mq |-> <<>>,
     rename |-> <<>>, computed |-> <<>>, rename_final |-> <<>>,
     columns_order |-> <<>>, required |-> <<>>, positive_int |-> <<>>,
     nonempty |-> <<>>, format |-> "csv"]

\* yaml.safe_load of an empty file is None.
NullCfg == [BaseCfg EXCEPT !.null = TRUE]

\* filters.include_financial_status
IncOpts ==
    {<<>>,
     <<<<"P","a","i","d">>>>}

\* filters.exclude_fulfillment_status
ExcOpts ==
    {<<>>,
     <<<<"F","u","l","f","i","l","l","e","d">>>>}

\* filters.min_quantity: absent, or a threshold.
MqOpts == {<<>>} \cup {<<n>> : n \in 0..MaxThreshold}

FilterCfgs ==
    {[BaseCfg EXCEPT !.inc = i, !.exc = e, !.mq = m] :
        i \in IncOpts, e \in ExcOpts, m \in MqOpts}

\* mappings.rename: (source, target) pairs in document order
RenameOpts ==
    {<<>>,
     <<<<<<"S","i","z","e">>, <<"s","i","z","e","_","l","a","b","e","l">>>>>>,
     <<<<<<"L","i","n","e","i","t","e","m"," ","q","u","a","n","t","i","t","y">>, <<"x">>>>, <<<<"Q","t","y">>, <<"x">>>>>>,
     <<<<<<"S","i","z","e">>, <<"q","t","y">>>>>>,
     <<<<<<"N","o"," ","S","u","c","h">>, <<"y">>>>, <<<<"S","I","Z","E">>, <<"s">>>>>>}

\* output.rename_final
FinalOpts ==
    {<<>>,
     <<<<<<"Q","t","y">>, <<"s","i","z","e">>>>>>}

\* output.columns_order
OrderOpts ==
    {<<>>,
     <<<<"s","i","z","e">>, <<"x">>, <<"e","x","t","r","a">>>>,
     <<<<"q","t","y">>>>}

ShapeCfgs ==
    {[BaseCfg EXCEPT !.rename = r, !.rename_final = f, !.columns_order = o] :
        r \in RenameOpts, f \in FinalOpts, o \in OrderOpts}

\* mappings.computed: (column, expression) pairs in document order
ComputedCfgs ==
    {[BaseCfg EXCEPT !.computed = <<<<<<"l","a","b","e","l">>, Call(<<"c","o","n","c","a","t">>, <<<<"s","i","z","e">>, <<"q","t","y">>>>)>>>>],
     [BaseCfg EXCEPT !.computed = <<<<<<"a">>, Ref(<<"s","i","z","e">>)>>, <<<<"b">>, Ref(<<"a">>)>>>>],
     [BaseCfg EXCEPT !.computed = <<<<<<"s","i","z","e">>, Call(<<"c","o","n","c","a","t">>, <<<<"s","i","z","e">>, <<"q","t","y">>>>)>>, <<<<"b">>, Ref(<<"s","i","z","e">>)>>>>, !.mq = <<0>>],
     [BaseCfg EXCEPT !.computed = <<<<<<"m">>, Ref(<<"p","d">>)>>>>],
     [BaseCfg EXCEPT !.computed = <<<<<<"u">>, Ref(<<"u","n","k","n","o","w","n">>)>>>>],
     [BaseCfg EXCEPT !.computed = <<<<<<"a">>, Ref(<<"q","t","y">>)>>, <<<<"u">>, Call(<<"c","o","n","c","a","t">>, <<<<"a">>, <<"n","o","p","e">>>>)>>>>],
     [BaseCfg EXCEPT !.computed = <<<<<<"t">>, Call(<<"s","i","z","e">>, <<<<"q","t","y">>>>)>>>>],
     [BaseCfg EXCEPT !.rename = <<<<<<"L","i","n","e","i","t","e","m"," ","q","u","a","n","t","i","t","y">>, <<"x">>>>, <<<<"Q","t","y">>, <<"x">>>>>>, !.computed = <<<<<<"m">>, Ref(<<"x">>)>>>>],
     [BaseCfg EXCEPT !.rename = <<<<<<"L","i","n","e","i","t","e","m"," ","q","u","a","n","t","i","t","y">>, <<"x">>>>, <<<<"Q","t","y">>, <<"x">>>>>>, !.computed = <<<<<<"x">>, Ref(<<"s","i","z","e">>)>>, <<<<"m">>, Call(<<"c","o","n","c","a","t">>, <<<<"x">>, <<"x">>>>)>>>>]}

\* validation.required / positive_int / nonempty
ValidationCfgs ==
    {[BaseCfg EXCEPT !.required = <<<<"s","i","z","e">>>>],
     [BaseCfg EXCEPT !.required = <<<<"n","o","c","o","l">>>>],
     [BaseCfg EXCEPT !.positive_int = <<<<"l","i","n","e","i","t","e","m","_","q","u","a","n","t","i","t","y">>>>],
     [BaseCfg EXCEPT !.positive_int = <<<<"q","t","y">>>>, !.format = "xlsx"],
     [BaseCfg EXCEPT !.positive_int = <<<<"n","o","c","o","l">>, <<"q","t","y">>>>],
     [BaseCfg EXCEPT !.nonempty = <<<<"s","i","z","e">>>>],
     [BaseCfg EXCEPT !.required = <<<<"q","t","y">>>>, !.positive_int = <<<<"q","t","y">>>>, !.nonempty = <<<<"s","i","z","e">>>>, !.mq = <<2>>],
     [BaseCfg EXCEPT !.rename = <<<<<<"L","i","n","e","i","t","e","m"," ","q","u","a","n","t","i","t","y">>, <<"x">>>>, <<<<"Q","t","y">>, <<"x">>>>>>, !.positive_int = <<<<"x">>>>],
     [BaseCfg EXCEPT !.columns_order = <<<<"s","i","z","e">>, <<"e","x","t","r","a">>>>, !.required = <<<<"e","x","t","r","a">>>>]}

Configs == {NullCfg} \cup FilterCfgs \cup ShapeCfgs \cup ComputedCfgs \cup ValidationCfgs


(***************************************************************************)
(* transform(): one action per stage, in program order.                    *)
(***************************************************************************)
EmptyFrame == Frame(<<>>, <<>>, <<>>)

\* Lines 94-97: load_frame, then every column name normalised; the rows are
\* labelled by their position.
LoadedFrame(s) ==
    Frame([j \in 1..Len(s.cols) |-> normalize_column_name(s.cols[j])],
          s.rows,
          [i \in 1..Len(s.rows) |-> i])

Init ==
    /\ cfg \in Configs
    /\ src \in Sources
    /\ pc = "start"
    /\ df = EmptyFrame
    /\ written = FALSE
    /\ err = ""
    /\ trace = <<>>
    /\ ci = 0
    /\ nname = <<>>
    /\ nout = <<>>

\* Lines 90-97: the empty-configuration check, load_frame, and the
\* normalisation of the column names.
Load ==
    /\ pc = "start"
    /\ LET e == IF cfg.null THEN "EmptyConfiguration" ELSE ""
       IN  /\ err' = e
           /\ pc' = AfterStage(e, "filter")
           /\ df' = IF e # "" THEN df ELSE LoadedFrame(src)
           /\ trace' = IF e = "" THEN Append(trace, "load") ELSE trace
    /\ UNCHANGED <<cfg, src, written, ci, nname, nout>>

\* Lines 102-121.
Filter ==
    /\ pc = "filter"
    /\ LET r == FilterStage(df, cfg)
       IN  /\ err' = r.err
           /\ pc' = AfterStage(r.err, "rename")
           /\ df' = IF r.err = "" THEN r.df ELSE df
           /\ trace' = IF r.err = "" THEN Append(trace, "filter") ELSE trace
    /\ UNCHANGED <<cfg, src, written, ci, nname, nout>>

\* Lines 126-127.
Rename ==
    /\ pc = "rename"
    /\ df' = RenameStage(df, cfg)
    /\ pc' = "computed"
    /\ ci' = 1
    /\ trace' = Append(trace, "rename")
    /\ UNCHANGED <<cfg, src, written, err, nname, nout>>

\* Lines 75-81: one iteration of the loop over computed.items().
ComputedStep ==
    /\ pc = "computed"
    /\ ci <= Len(cfg.computed)
    /\ LET item == ComputedItem(cfg.computed, ci)
       IN  \E r \in ComputedOutcomes(df, item[1], item[2]) :
               /\ err' = r.err
               /\ pc' = AfterStage(r.err, "computed")
               /\ df' = IF r.err = "" THEN r.df ELSE df
               /\ ci' = IF r.err = "" THEN ci + 1 ELSE ci
    /\ UNCHANGED <<cfg, src, written, trace, nname, nout>>

\* Line 82 and the return to line 131.
ComputedReturn ==
    /\ pc = "computed"
    /\ ci > Len(cfg.computed)
    /\ pc' = "shape"
    /\ trace' = Append(trace, "computed")
    /\ UNCHANGED <<cfg, src, df, written, err, ci, nname, nout>>

\* Lines 136-142.
Shape ==
    /\ pc = "shape"
    /\ df' = ShapeStage(df, cfg)
    /\ pc' = "validate"
    /\ trace' = Append(trace, "shape")
    /\ UNCHANGED <<cfg, src, written, err, ci, nname, nout>>

\* Lines 148-159.
Validate ==
    /\ pc = "validate"
    /\ LET e == ValidateStage(df, cfg)
       IN  /\ err' = e
           /\ pc' = AfterStage(e, "write")
           /\ trace' = IF e = "" THEN Append(trace, "validate") ELSE trace
    /\ UNCHANGED <<cfg, src, df, written, ci, nname, nout>>

\* Lines 164-174: the directory is created and the file written.
Write ==
    /\ pc = "write"
    /\ written' = TRUE
    /\ pc' = "done"
    /\ trace' = Append(trace, "write")
    /\ UNCHANGED <<cfg, src, df, err, ci, nname, nout>>

Next ==
    \/ Load
    \/ Filter
    \/ Rename
    \/ ComputedStep
    \/ ComputedReturn
    \/ Shape
    \/ Validate
    \/ Write

Spec == Init /\ [][Next]_vars

(***************************************************************************)
(* normalize_column_name applied twice to a name.                          *)
(***************************************************************************)
\* Characters a header can hold: a lower-case letter, an upper-case letter,
\* the underscore, a space, and U+0130.
NameChars == {"a", "B", "_", " ", "I_DOT"}

Names == UNION {[1..n -> NameChars] : n \in 0..MaxNameLen}

InitNorm ==
    /\ nname \in Names
    /\ nout = <<>>
    /\ pc = "normalize"
    /\ cfg = NullCfg
    /\ src = [cols |-> <<>>, rows |-> <<>>]
    /\ df = EmptyFrame
    /\ written = FALSE
    /\ err = ""
    /\ trace = <<>>
    /\ ci = 0

\* nout collects normalize_column_name(x), then
\* normalize_column_name(normalize_column_name(x)).
Normalize ==
    /\ pc = "normalize"
    /\ Len(nout) < 2
    /\ nout' = Append(nout, normalize_column_name(
                                IF nout = <<>> THEN nname ELSE nout[Len(nout)]))
    /\ UNCHANGED <<pc, cfg, src, df, written, err, trace, ci, nname>>

NextNorm == Normalize

SpecNorm == InitNorm /\ [][NextNorm]_vars

(***************************************************************************)
(* Properties.                                                             *)
(***************************************************************************)
Unique(cols) == \A i, j \in 1..Len(cols) : cols[i] = cols[j] => i = j

\* The frame the computed-field stage starts from.
BeforeComputed == RenameStage(FilterStage(LoadedFrame(src), cfg).df, cfg)

\* C1: with a non-empty columns_order, the table leaving output shaping has
\* exactly the columns of columns_order, in that order, and every listed
\* name that the table lacked when the ordering began (after the final
\* rename) holds the empty string in every row.
C1_ColumnsOrderContract ==
    [][(pc = "shape" /\ pc' = "validate" /\ cfg.columns_order # <<>>) =>
          /\ df'.cols = cfg.columns_order
          /\ \A j \in 1..Len(df'.cols) :
                ~HasCol(FinalRename(df, cfg), df'.cols[j]) =>
                    \A i \in 1..NRows(df') : df'.rows[i][j] = <<>>]_vars

\* C2: the file is written only after the empty-configuration check and the
\* filter, rename, computed-field, shaping and validation stages have all
\* returned normally, on a table that passes the validator; a run in which
\* a stage raised has written nothing and has stopped.
C2_WriteOnlyAfterAllStages ==
    /\ written =>
          /\ trace = <<"load", "filter", "rename", "computed", "shape",
                       "validate", "write">>
          /\ err = ""
          /\ ~cfg.null
          /\ FilterStage(LoadedFrame(src), cfg).err = ""
          /\ ValidateStage(df, cfg) = ""
    /\ err # "" => ~written /\ pc = "failed"
    /\ pc = "failed" => ~written /\ err # ""

\* A run that configured a filter and validation checks and wrote its file.
C2_Witness ==
    /\ pc = "done"
    /\ written
    /\ cfg.mq # <<>>
    /\ cfg.positive_int # <<>>
    /\ NRows(df) > 0

\* The identifiers an expression refers to.
Idents(e) == {e.id} \cup Range(e.args)

\* C3: when an expression is evaluated for a row, it can resolve only
\* to_date, po_date_plus, concat and the row's column names; an expression
\* that refers to any other identifier makes the run fail.
C3_OnlyDeclaredNamesResolve ==
    [][(/\ pc = "computed"
        /\ ci <= Len(cfg.computed)
        /\ NRows(df) > 0
        /\ ~(Idents(cfg.computed[ci][2])
                \subseteq ({TO_DATE, PO_DATE_PLUS, CONCAT} \cup Range(df.cols))))
          => pc' = "failed"]_vars

\* C4: once the validator has passed, every value of every positive_int
\* column present in the table is a number greater than zero (a value that
\* is <= 0, or is not a number, fails the run).
C4_PositiveIntRejectsNonNumeric ==
    pc \in {"write", "done"} =>
        \A k \in 1..Len(cfg.positive_int) :
            LET c == cfg.positive_int[k]
            IN  (HasCol(df, c) /\ IsSeries(df, c)) =>
                    \A i \in 1..NRows(df) :
                        /\ ~ToNumeric(Cell(df, i, c)).nan
                        /\ ~LeqZero(ToNumeric(Cell(df, i, c)))

\* The quantity of a cell as a number: zero when missing or not numeric.
\* For an integer threshold n, x >= n exactly when floor(x) >= n.
ExactQuantity(v) ==
    LET n == FillNaZero(ToNumeric(v))
    IN  IF ~n.neg THEN n.ip ELSE IF n.fz THEN 0 - n.ip ELSE 0 - n.ip - 1

\* The quantity of a cell truncated toward zero to an integer.
TruncatedQuantity(v) ==
    LET n == FillNaZero(ToNumeric(v)) IN IF n.neg THEN 0 - n.ip ELSE n.ip

\* The min_quantity step, as a claim states it: on the table t left by the
\* status filters, the quantity is read from lineitem_quantity, else qty;
\* with neither the run fails; otherwise exactly the rows whose quantity
\* (exact, or truncated) reaches the threshold are kept, in order.
MinQuantityRule(exact) ==
    (pc = "filter" /\ cfg.mq # <<>> /\ FilterStatus(df, cfg).err = "") =>
        LET t == FilterStatus(df, cfg).df
            q(v) == IF exact THEN ExactQuantity(v) ELSE TruncatedQuantity(v)
        IN  IF ~HasCol(t, LINEITEM_QUANTITY) /\ ~HasCol(t, QTY)
            THEN pc' = "failed" /\ err' = "MissingColumn"
            ELSE LET qcol == IF HasCol(t, LINEITEM_QUANTITY)
                             THEN LINEITEM_QUANTITY ELSE QTY
                 IN  /\ pc' = "rename"
                     /\ df'.index =
                            KeepFrom(t.index,
                                     {i \in 1..NRows(t) : q(Cell(t, i, qcol)) >= cfg.mq[1]},
                                     1)

\* C5 as stated: a row is kept exactly when its quantity (zero when missing
\* or not numeric) is >= the threshold.
C5_KeptIffQuantityAtLeastThreshold ==
    [][MinQuantityRule(TRUE)]_vars

\* C5, amended: the quantity is the cell's number truncated toward zero to
\* an integer (zero when missing or not numeric); a row is kept exactly when
\* that integer is >= the threshold.  The column is lineitem_quantity if it
\* exists, else qty; with neither the run fails with a missing-column error.
C5_KeptIffTruncatedQuantityAtLeastThreshold ==
    [][MinQuantityRule(FALSE)]_vars

\* A two-row export filtered by min_quantity, from which exactly the row
\* whose quantity equals the threshold survived.
C5_Witness ==
    /\ pc = "rename"
    /\ cfg.mq # <<>>
    /\ cfg.inc = <<>> /\ cfg.exc = <<>>
    /\ Len(src.rows) = 2
    /\ HasCol(df, LINEITEM_QUANTITY)
    /\ NRows(df) = 1
    /\ Cell(df, 1, LINEITEM_QUANTITY) = IntToStr(cfg.mq[1])
    /\ \E i \in 1..2 :
          Cell(LoadedFrame(src), i, LINEITEM_QUANTITY) = IntToStr(cfg.mq[1] - 1)

\* C6: with include_financial_status configured, the run fails with a
\* missing-column error when the table has no financial_status column;
\* otherwise the rows that remain after the include step are exactly those
\* whose financial_status, lower-cased (missing read as the empty string),
\* equals one of the configured values lower-cased, in their original order.
C6_IncludeFinancialStatus ==
    [][(pc = "filter" /\ cfg.inc # <<>>) =>
          IF ~HasCol(df, FINANCIAL_STATUS)
          THEN pc' = "failed" /\ err' = "MissingColumn"
          ELSE LET matches(i) ==
                       \E k \in 1..Len(cfg.inc) :
                           Lower(IF Cell(df, i, FINANCIAL_STATUS) = NaN THEN <<>>
                                 ELSE Cell(df, i, FINANCIAL_STATUS))
                               = Lower(cfg.inc[k])
                   kept == KeepFrom(df.index, {i \in 1..NRows(df) : matches(i)}, 1)
               IN  /\ pc' = "rename" => Range(df'.index) \subseteq Range(kept)
                   /\ (cfg.exc = <<>> /\ cfg.mq = <<>>) =>
                          pc' = "rename" /\ df'.index = kept]_vars

\* The include filter ran alone on two rows, kept one whose status differs
\* from the configured value only by case, and removed the other.
C6_Witness ==
    /\ pc = "rename"
    /\ cfg.inc # <<>> /\ cfg.exc = <<>> /\ cfg.mq = <<>>
    /\ Len(src.rows) = 2
    /\ NRows(df) = 1
    /\ Cell(df, 1, FINANCIAL_STATUS) \notin Range(cfg.inc)

\* C7: normalize_column_name is idempotent.
C7_NormalizeIdempotent == Len(nout) = 2 => nout[2] = nout[1]

\* C8: the filter stage changes nothing but the set of rows: same columns,
\* the surviving rows in their original order, every cell as it was.
C8_FilterChangesOnlyRowSet ==
    [][(pc = "filter" /\ pc' = "rename") =>
          /\ df'.cols = df.cols
          /\ \A k \in 1..NRows(df') :
                /\ df'.index[k] \in 1..NRows(df)
                /\ df'.rows[k] = df.rows[df'.index[k]]
                /\ k > 1 => df'.index[k - 1] < df'.index[k]]_vars

\* C9: column names are unique after the rename stage and after the final
\* rename, whatever targets the configured pairs share.
C9_RenameKeepsNamesUnique ==
    /\ (pc = "computed" /\ ci = 1) => Unique(df.cols)
    /\ (pc = "shape" /\ Unique(df.cols)) => Unique(FinalRename(df, cfg).cols)

\* C10: computed columns are evaluated in declaration order, each over all
\* rows before the next: when the stage returns, the columns it created
\* stand in declaration order after the columns it started from, and a
\* computed column whose expression is the name of an earlier computed
\* column (not computed again later) holds, in every row, the value that the
\* earlier one produced, also when the earlier one overwrote a column.
C10_ComputedInDeclarationOrder ==
    (pc = "shape" /\ cfg.computed # <<>>) =>
        LET comp == cfg.computed
            n    == Len(comp)
            t0   == BeforeComputed
            created == SelectSeq([k \in 1..n |-> comp[k][1]],
                                 LAMBDA c : ~HasCol(t0, c))
        IN  /\ df.cols = t0.cols \o created
            /\ \A j \in 1..n : \A k \in 1..(j - 1) :
                  (/\ comp[j][2] = Ref(comp[k][1])
                   /\ comp[j][1] # comp[k][1]
                   /\ \A m \in (k + 1)..n : m # j => comp[m][1] \notin {comp[k][1], comp[j][1]})
                  => \A i \in 1..NRows(df) :
                        Cell(df, i, comp[j][1]) = Cell(df, i, comp[k][1])

\* The stage returned after a first expression overwrote an existing column
\* with a new value and a second one read that column.
C10_Witness ==
    /\ pc = "shape"
    /\ Len(cfg.computed) = 2
    /\ cfg.computed[2][2] = Ref(cfg.computed[1][1])
    /\ HasCol(BeforeComputed, cfg.computed[1][1])
    /\ NRows(df) > 0
    /\ \E i \in 1..NRows(df) :
          /\ Cell(df, i, cfg.computed[2][1]) = Cell(df, i, cfg.computed[1][1])
          /\ Cell(df, i, cfg.computed[1][1])
                # BeforeComputed.rows[i][Pos(BeforeComputed, cfg.computed[1][1])]

====
